---- MODULE Spec2Model ----
(***************************************************************************)
(* Model of the express-tutorial product API.                              *)
(*                                                                         *)
(* server.js composes the logging middleware, mounts the products router   *)
(* (products.js) under /products and defines four inline routes.  Every    *)
(* product handler is an async function: it runs synchronously up to its   *)
(* single `await prisma.product.<op>(...)`, the Store (Prisma over SQLite, *)
(* table Product of the schema) settles that call atomically, and the      *)
(* handler's continuation then sends the response.  Several requests may   *)
(* be between those steps at the same time.                                *)
(***************************************************************************)
EXTENDS Integers, Sequences, FiniteSets, TLC

(* ------------------------------ bounds ------------------------------- *)
\* number of requests a behaviour handles (they may overlap)
MaxReqs == 2
\* creation timestamps the Store's clock can produce
MaxClock == 1
\* rows the database file already holds when the server starts
MaxSeed == 1

Reqs == 1..MaxReqs
Times == 1..MaxClock

(* --------------------------- JSON values ----------------------------- *)
\* A JavaScript value of a request body or a parsed parameter: a string, an
\* integer number, NaN, or undefined (field missing).
Undef == [t |-> "undefined", s |-> "", n |-> 0]
NaN == [t |-> "number", s |-> "NaN", n |-> 0]
Str(x) == [t |-> "string", s |-> x, n |-> 0]
Num(k) == [t |-> "number", s |-> "", n |-> k]
IsInt(v) == v.t = "number" /\ v.s = ""
IsString(v) == v.t = "string"

\* Path segments a client sends after /products/, with their characters.
Segs == {"1", "02", "x1", "special"}
SegChars ==
  [s \in Segs |->
     CASE s = "1" -> <<"1">>
       [] s = "02" -> <<"0", "2">>
       [] s = "x1" -> <<"x", "1">>
       [] s = "special" -> <<"s", "p", "e", "c", "i", "a", "l">>]
Digits == {"0", "1", "2", "3", "4", "5", "6", "7", "8", "9"}
DigitVal(c) ==
  CASE c = "0" -> 0 [] c = "1" -> 1 [] c = "2" -> 2 [] c = "3" -> 3
    [] c = "4" -> 4 [] c = "5" -> 5 [] c = "6" -> 6 [] c = "7" -> 7
    [] c = "8" -> 8 [] c = "9" -> 9

RECURSIVE Decimal(_)
Decimal(cs) ==
  IF cs = <<>> THEN 0
  ELSE 10 * Decimal(SubSeq(cs, 1, Len(cs) - 1)) + DigitVal(cs[Len(cs)])

\* Number(req.params.id): a string of decimal digits is its value, any other
\* text is NaN.
Number(seg) ==
  LET cs == SegChars[seg]
  IN IF \A i \in 1..Len(cs) : cs[i] \in Digits THEN Num(Decimal(cs)) ELSE NaN

(* ----------------------------- requests ------------------------------ *)
NoBody == [id |-> Undef, name |-> Undef, price |-> Undef, message |-> Undef]
ProductBodies ==
  { [NoBody EXCEPT !.name = Str("laptop"), !.price = Num(999)],
    [NoBody EXCEPT !.name = Str("phone"), !.price = Num(699), !.id = Num(1)],
    [NoBody EXCEPT !.price = Str("free")] }
MessageBodies ==
  { [NoBody EXCEPT !.name = Str("Alba"), !.message = Str("Hello!")],
    [NoBody EXCEPT !.name = Str("Alba"), !.message = Str("Bye")],
    [NoBody EXCEPT !.name = Str("Bob"), !.message = Str("Hello!")] }

Req(m, p, b) == [method |-> m, path |-> p, body |-> b]
Requests ==
  { Req("GET", <<"products">>, NoBody) }
  \cup { Req("GET", <<"products", s>>, NoBody) : s \in Segs }
  \cup { Req("POST", <<"products">>, b) : b \in ProductBodies }
  \cup { Req("GET", <<>>, NoBody), Req("GET", <<"about">>, NoBody),
         Req("GET", <<"message">>, NoBody) }
  \cup { Req("POST", <<"message">>, b) : b \in MessageBodies }
NoRequest == Req("", <<>>, NoBody)

(* ------------------------------ routing ------------------------------ *)
Lit(s) == [kind |-> "lit", name |-> s]
Param(s) == [kind |-> "param", name |-> s]
Route(m, pat, h) == [method |-> m, pattern |-> pat, handler |-> h]

\* the router of products.js, in registration order
ProductRoutesSwapped ==
  << Route("GET", <<>>, "getAll"),
     Route("GET", <<Param("id")>>, "getById"),
     Route("GET", <<Lit("special")>>, "getSpecial"),
     Route("POST", <<>>, "create") >>
ProductRoutes ==
  << Route("GET", <<>>, "getAll"),
     Route("GET", <<Lit("special")>>, "getSpecial"),
     Route("GET", <<Param("id")>>, "getById"),
     Route("POST", <<>>, "create") >>

\* the routes server.js defines after mounting the router
AppRoutes ==
  << Route("GET", <<>>, "home"),
     Route("GET", <<Lit("about")>>, "about"),
     Route("GET", <<Lit("message")>>, "getMessage"),
     Route("POST", <<Lit("message")>>, "postMessage") >>

Matches(route, m, path) ==
  /\ route.method = m
  /\ Len(route.pattern) = Len(path)
  /\ \A i \in 1..Len(path) :
       route.pattern[i].kind = "param" \/ route.pattern[i].name = path[i]

\* first-match-wins: the handler of the first route that matches, "" if none
FirstMatch(routes, m, path) ==
  LET hits == { i \in 1..Len(routes) : Matches(routes[i], m, path) }
  IN IF hits = {} THEN ""
     ELSE routes[CHOOSE i \in hits : \A j \in hits : i <= j].handler

\* app.use("/products", productsRouter) comes first; a request the router
\* does not match falls through to the inline routes, then to the framework's
\* 404.
Dispatch(m, path) ==
  LET inRouter == IF Len(path) >= 1 /\ path[1] = "products"
                  THEN FirstMatch(ProductRoutes, m, Tail(path)) ELSE ""
      inApp == FirstMatch(AppRoutes, m, path)
  IN IF inRouter # "" THEN inRouter
     ELSE IF inApp # "" THEN inApp ELSE "notFound"

\* req.params.id of the get-by-id route
ParamId(path) == path[2]

(* ------------------------------ the Store ---------------------------- *)
\* a row of table Product (schema: id Int @id @default(autoincrement()),
\* name String, price Int, createdAt DateTime @default(now()))
Row(i, nm, pr, ts) == [id |-> i, name |-> nm, price |-> pr, createdAt |-> ts]

\* what a Store call settles to: a value (null, one object, an array) or a
\* rejection with the error that console.error logs
Value(t, rows) == [t |-> t, rows |-> rows]
Null == Value("null", <<>>)
Resolved(v) == [ok |-> TRUE, value |-> v, error |-> ""]
Rejected(e) == [ok |-> FALSE, value |-> Null, error |-> e]
NoOutcome == [ok |-> FALSE, value |-> Null, error |-> "pending"]

Call(op, i, nm, pr) == [op |-> op, id |-> i, name |-> nm, price |-> pr]
NoCall == Call("", Undef, Undef, Undef)

\* prisma.product.findMany(): every row of the table
PrismaFindManyDropsLast(tbl) ==
  Resolved(Value("array", SubSeq(tbl, 1, Len(tbl) - 1)))
PrismaFindManyRepeats(tbl) == Resolved(Value("array", tbl \o tbl))
PrismaFindMany(tbl) == Resolved(Value("array", tbl))

\* prisma.product.findUnique({ where: { id } }): id is an Int column, so a
\* value that is not an integer is refused by the client's argument
\* validation; otherwise the row with that id, or null
PrismaFindUniqueFirstRow(tbl, i) ==
  IF ~IsInt(i) THEN Rejected("validation")
  ELSE IF tbl = <<>> THEN Resolved(Null)
       ELSE Resolved(Value("object", <<tbl[1]>>))
PrismaFindUnique(tbl, i) ==
  IF ~IsInt(i) THEN Rejected("validation")
  ELSE LET hits == { k \in 1..Len(tbl) : tbl[k].id = i.n }
       IN IF hits = {} THEN Resolved(Null)
          ELSE Resolved(Value("object", <<tbl[CHOOSE k \in hits : TRUE]>>))

\* prisma.product.create({ data }): name must be a String and price an Int,
\* both required; id is optional.  The row gets the id of the data when there
\* is one, the next autoincrement value otherwise, and the creation time.
PrismaCreateValid(data) ==
  /\ IsString(data.name)
  /\ IsInt(data.price)
  /\ data.id = Undef \/ IsInt(data.id)
PrismaCreateRow(last, data, ts) ==
  Row(IF IsInt(data.id) THEN data.id.n ELSE last + 1,
      data.name.s, data.price.n, ts)

\* the table after the INSERT
PrismaInsertOverwrites(tbl, row) ==
  IF tbl = <<>> THEN <<row>> ELSE [tbl EXCEPT ![Len(tbl)] = row]
PrismaInsertKeepsLatest(tbl, row) == <<row>>
PrismaInsert(tbl, row) == Append(tbl, row)

Ids(tbl) == { tbl[k].id : k \in 1..Len(tbl) }
Max(a, b) == IF a >= b THEN a ELSE b

(* ------------------------------ handlers ----------------------------- *)
Body(kind, text, rows) == [kind |-> kind, text |-> text, rows |-> rows]
Response(status, body) == [status |-> status, body |-> body]
ErrorBody(msg) == Body("error", msg, <<>>)
MessageBody(msg) == Body("message", msg, <<>>)

AsyncHandlers == {"getAll", "getById", "create"}

\* the Store call a product handler makes before its await
HandlerCallPassesId(h, req) ==
  CASE h = "getAll" -> Call("findMany", Undef, Undef, Undef)
    [] h = "getById" -> Call("findUnique", Number(ParamId(req.path)), Undef, Undef)
    [] h = "create" -> Call("create", req.body.id, req.body.name, req.body.price)
    [] OTHER -> NoCall
HandlerCallDefaultsName(h, req) ==
  CASE h = "getAll" -> Call("findMany", Undef, Undef, Undef)
    [] h = "getById" -> Call("findUnique", Number(ParamId(req.path)), Undef, Undef)
    [] h = "create" ->
         Call("create", Undef,
              IF req.body.name = Undef THEN Str("") ELSE req.body.name,
              req.body.price)
    [] OTHER -> NoCall
HandlerCall(h, req) ==
  CASE h = "getAll" -> Call("findMany", Undef, Undef, Undef)
    [] h = "getById" -> Call("findUnique", Number(ParamId(req.path)), Undef, Undef)
    [] h = "create" -> Call("create", Undef, req.body.name, req.body.price)
    [] OTHER -> NoCall

\* `Thanks ${name}, ...`: the template's conversion of a value to text
ToText(v) ==
  CASE v.t = "string" -> v.s
    [] v.t = "undefined" -> "undefined"
    [] v.t = "number" /\ v.s = "NaN" -> "NaN"
    [] OTHER -> ToString(v.n)

\* the response of a handler that makes no Store call
HandlerSyncSpecialById(h, req) ==
  CASE h = "getSpecial" -> Response(404, ErrorBody("Product not found"))
    [] OTHER -> Response(200, MessageBody("Hello from express backend"))
HandlerSyncEchoesMessage(h, req) ==
  CASE h = "getSpecial" -> Response(200, MessageBody("Special products"))
    [] h = "home" -> Response(200, Body("text", "Hey there!!", <<>>))
    [] h = "about" -> Response(200, Body("text", "This is the about page", <<>>))
    [] h = "getMessage" -> Response(200, MessageBody("Hello from express backend"))
    [] h = "postMessage" ->
         Response(200, Body("reply",
                            "Thanks " \o ToText(req.body.message)
                              \o ", we received your message!", <<>>))
    [] OTHER -> Response(404, Body("text", "Cannot " \o req.method, <<>>))
HandlerSync(h, req) ==
  CASE h = "getSpecial" -> Response(200, MessageBody("Special products"))
    [] h = "home" -> Response(200, Body("text", "Hey there!!", <<>>))
    [] h = "about" -> Response(200, Body("text", "This is the about page", <<>>))
    [] h = "getMessage" -> Response(200, MessageBody("Hello from express backend"))
    [] h = "postMessage" ->
         Response(200, Body("reply",
                            "Thanks " \o ToText(req.body.name)
                              \o ", we received your message!", <<>>))
    [] OTHER -> Response(404, Body("text", "Cannot " \o req.method, <<>>))

\* the response a product handler sends once its Store call has settled
HandlerResumeNoCatch(h, out) ==
  CASE h = "getAll" -> Response(200, Body("products", "", out.value.rows))
    [] h = "getById" ->
         IF out.value.t = "null"
         THEN Response(404, ErrorBody("Product not found"))
         ELSE Response(200, Body("product", "", out.value.rows))
    [] h = "create" -> Response(201, Body("product", "", out.value.rows))
HandlerResumeNo404(h, out) ==
  CASE h = "getAll" ->
         IF out.ok THEN Response(200, Body("products", "", out.value.rows))
         ELSE Response(500, ErrorBody("Failed to fetch products"))
    [] h = "getById" ->
         IF ~out.ok THEN Response(500, ErrorBody("Failed to fetch product"))
         ELSE Response(200, Body("product", "", out.value.rows))
    [] h = "create" ->
         IF out.ok THEN Response(201, Body("product", "", out.value.rows))
         ELSE Response(500, ErrorBody("Failed to create product"))
HandlerResume(h, out) ==
  CASE h = "getAll" ->
         IF out.ok THEN Response(200, Body("products", "", out.value.rows))
         ELSE Response(500, ErrorBody("Failed to fetch products"))
    [] h = "getById" ->
         IF ~out.ok THEN Response(500, ErrorBody("Failed to fetch product"))
         ELSE IF out.value.t = "null"
              THEN Response(404, ErrorBody("Product not found"))
              ELSE Response(200, Body("product", "", out.value.rows))
    [] h = "create" ->
         IF out.ok THEN Response(201, Body("product", "", out.value.rows))
         ELSE Response(500, ErrorBody("Failed to create product"))

\* the responses the continuation of a product handler sends: the 404 branch
\* of get-by-id returns, so one response on every path
HandlerSendsFallsThrough(h, out) ==
  IF h = "getById" /\ out.ok /\ out.value.t = "null"
  THEN <<Response(404, ErrorBody("Product not found")),
         Response(200, Body("product", "", out.value.rows))>>
  ELSE <<HandlerResume(h, out)>>
HandlerSends(h, out) == <<HandlerResume(h, out)>>

(* --------------------------- the layered stack ----------------------- *)
\* product.routes.js: the same four bindings, to the controller's functions
LayeredRoutes ==
  << Route("GET", <<>>, "getAll"),
     Route("GET", <<Lit("special")>>, "getSpecial"),
     Route("GET", <<Param("id")>>, "getById"),
     Route("POST", <<>>, "create") >>

\* product.service.js: each function hands its argument to the Store as it is
ServiceGetAllProducts == Call("findMany", Undef, Undef, Undef)
ServiceGetProductById(i) == Call("findUnique", i, Undef, Undef)
ServiceCreateProductDefaultsPrice(data) ==
  Call("create", data.id, data.name,
       IF IsInt(data.price) THEN data.price ELSE Num(0))
ServiceCreateProduct(data) == Call("create", data.id, data.name, data.price)

\* the controller's functions up to their await
ControllerCall(h, req) ==
  CASE h = "getAll" -> ServiceGetAllProducts
    [] h = "getById" -> ServiceGetProductById(Number(ParamId(req.path)))
    [] h = "create" ->
         ServiceCreateProduct([id |-> Undef, name |-> req.body.name,
                               price |-> req.body.price])
    [] OTHER -> NoCall

\* getSpecial of the controller
ControllerSync(h, req) == Response(200, MessageBody("Special products"))

\* the controller's functions after their await
ControllerResume(h, out) ==
  CASE h = "getAll" ->
         IF out.ok THEN Response(200, Body("products", "", out.value.rows))
         ELSE Response(500, ErrorBody("Failed to fetch products"))
    [] h = "getById" ->
         IF ~out.ok THEN Response(500, ErrorBody("Failed to fetch product"))
         ELSE IF out.value.t = "null"
              THEN Response(404, ErrorBody("Product not found"))
              ELSE Response(200, Body("product", "", out.value.rows))
    [] h = "create" ->
         IF out.ok THEN Response(201, Body("product", "", out.value.rows))
         ELSE Response(500, ErrorBody("Failed to create product"))

(* ------------------------------- state ------------------------------- *)
VARIABLES
  products,   \* rows of table Product, in insertion order
  counter,    \* the table's autoincrement counter
  pc,         \* per request: "idle", "awaiting", "settled", "done"
  request,    \* per request: method, path, body
  handler,    \* per request: the handler the router chose
  call,       \* per request: the Store calls its handler has made
  outcome,    \* per request: what its Store call settled to
  sent,       \* per request: the responses sent, in order
  after       \* per request: the requests already answered when it arrived

vars == <<products, counter, pc, request, handler, call, outcome, sent, after>>

\* The server starts on the database file as earlier runs left it: rows the
\* Store itself created, with consecutive ids.
Init ==
  /\ \E n \in 0..MaxSeed :
       /\ products = [k \in 1..n |-> Row(k, "laptop", 999, 1)]
       /\ counter = n
  /\ pc = [r \in Reqs |-> "idle"]
  /\ request = [r \in Reqs |-> NoRequest]
  /\ handler = [r \in Reqs |-> ""]
  /\ call = [r \in Reqs |-> <<>>]
  /\ outcome = [r \in Reqs |-> NoOutcome]
  /\ sent = [r \in Reqs |-> <<>>]
  /\ after = [r \in Reqs |-> {}]

ReceiveUnlessCrashed(r) ==
  /\ \A s \in Reqs : IF sent[s] = <<>> THEN TRUE ELSE sent[s][1].status # 500
  /\ pc[r] = "idle"
  /\ \A s \in Reqs : s < r => pc[s] # "idle"
  /\ \E q \in Requests :
       LET h == Dispatch(q.method, q.path)
       IN /\ request' = [request EXCEPT ![r] = q]
          /\ handler' = [handler EXCEPT ![r] = h]
          /\ after' = [after EXCEPT ![r] = { s \in Reqs : pc[s] = "done" }]
          /\ IF h \in AsyncHandlers
             THEN /\ call' = [call EXCEPT ![r] = <<HandlerCall(h, q)>>]
                  /\ pc' = [pc EXCEPT ![r] = "awaiting"]
                  /\ sent' = sent
             ELSE /\ call' = call
                  /\ pc' = [pc EXCEPT ![r] = "done"]
                  /\ sent' = [sent EXCEPT ![r] = <<HandlerSync(h, q)>>]
  /\ UNCHANGED <<products, counter, outcome>>

ReceiveCountsVisits(r) ==
  /\ pc[r] = "idle"
  /\ \A s \in Reqs : s < r => pc[s] # "idle"
  /\ \E q \in Requests :
       LET h == Dispatch(q.method, q.path)
       IN /\ request' = [request EXCEPT ![r] = q]
          /\ handler' = [handler EXCEPT ![r] = h]
          /\ after' = [after EXCEPT ![r] = { s \in Reqs : pc[s] = "done" }]
          /\ IF h \in AsyncHandlers
             THEN /\ call' = [call EXCEPT ![r] = <<HandlerCall(h, q)>>]
                  /\ pc' = [pc EXCEPT ![r] = "awaiting"]
                  /\ sent' = sent
             ELSE /\ call' = call
                  /\ pc' = [pc EXCEPT ![r] = "done"]
                  /\ sent' = [sent EXCEPT ![r] =
                       <<[HandlerSync(h, q) EXCEPT
                            !.body.text = @ \o ToString(Cardinality(
                                              { s \in Reqs : pc[s] # "idle" }))]>>]
  /\ UNCHANGED <<products, counter, outcome>>

\* A request arrives: the logging middleware passes it on, the router picks
\* the handler, and the handler runs up to its await (or to its response).
Receive(r) ==
  /\ pc[r] = "idle"
  /\ \A s \in Reqs : s < r => pc[s] # "idle"
  /\ \E q \in Requests :
       LET h == Dispatch(q.method, q.path)
       IN /\ request' = [request EXCEPT ![r] = q]
          /\ handler' = [handler EXCEPT ![r] = h]
          /\ after' = [after EXCEPT ![r] = { s \in Reqs : pc[s] = "done" }]
          /\ IF h \in AsyncHandlers
             THEN /\ call' = [call EXCEPT ![r] = <<HandlerCall(h, q)>>]
                  /\ pc' = [pc EXCEPT ![r] = "awaiting"]
                  /\ sent' = sent
             ELSE /\ call' = call
                  /\ pc' = [pc EXCEPT ![r] = "done"]
                  /\ sent' = [sent EXCEPT ![r] = <<HandlerSync(h, q)>>]
  /\ UNCHANGED <<products, counter, outcome>>

\* The Store fails the pending call (connectivity): nothing is stored.
StoreFail(r) ==
  /\ pc[r] = "awaiting"
  /\ outcome' = [outcome EXCEPT ![r] = Rejected("connectivity")]
  /\ pc' = [pc EXCEPT ![r] = "settled"]
  /\ UNCHANGED <<products, counter, request, handler, call, sent, after>>

\* The Store executes the pending call.
StoreExec(r) ==
  /\ pc[r] = "awaiting"
  /\ LET c == call[r][1]
     IN CASE c.op = "findMany" ->
               /\ outcome' = [outcome EXCEPT ![r] = PrismaFindMany(products)]
               /\ UNCHANGED <<products, counter>>
          [] c.op = "findUnique" ->
               /\ outcome' = [outcome EXCEPT ![r] = PrismaFindUnique(products, c.id)]
               /\ UNCHANGED <<products, counter>>
          [] c.op = "create" ->
               IF ~PrismaCreateValid(c)
               THEN /\ outcome' = [outcome EXCEPT ![r] = Rejected("validation")]
                    /\ UNCHANGED <<products, counter>>
               ELSE \E ts \in Times :
                      LET row == PrismaCreateRow(counter, c, ts)
                      IN IF row.id \in Ids(products)
                         THEN /\ outcome' = [outcome EXCEPT
                                               ![r] = Rejected("constraint")]
                              /\ UNCHANGED <<products, counter>>
                         ELSE /\ products' = PrismaInsert(products, row)
                              /\ counter' = Max(counter, row.id)
                              /\ outcome' = [outcome EXCEPT
                                               ![r] = Resolved(Value("object", <<row>>))]
  /\ pc' = [pc EXCEPT ![r] = "settled"]
  /\ UNCHANGED <<request, handler, call, sent, after>>

\* The handler's continuation after the await sends the response.
Resume(r) ==
  /\ pc[r] = "settled"
  /\ sent' = [sent EXCEPT ![r] = @ \o HandlerSends(handler[r], outcome[r])]
  /\ pc' = [pc EXCEPT ![r] = "done"]
  /\ UNCHANGED <<products, counter, request, handler, call, outcome, after>>

Next ==
  \E r \in Reqs : Receive(r) \/ StoreFail(r) \/ StoreExec(r) \/ Resume(r)

Spec == Init /\ [][Next]_vars

\* The event loop runs the continuation of every settled await.
FairSpec == Spec /\ \A r \in Reqs : WF_vars(Resume(r))

TypeOK ==
  /\ counter = Len(products)
  /\ \A r \in Reqs : pc[r] \in {"idle", "awaiting", "settled", "done"}

(* ------------------------------ properties --------------------------- *)
SpecialRequest == Req("GET", <<"products", "special">>, NoBody)
SpecialResponse == Response(200, MessageBody("Special products"))
NotFoundResponse == Response(404, ErrorBody("Product not found"))
Answered(r) == pc[r] = "done"
\* the id a get-by-id request asks for
AskedId(r) == Number(ParamId(request[r].path))
\* the Store was reachable for the call of request r
StoreUp(r) == outcome[r].error # "connectivity"
\* request r is a create that was answered 201; Created(r) is its record
Answered201(r) ==
  /\ Answered(r)
  /\ handler[r] = "create"
  /\ sent[r][1].status = 201
Created(r) == sent[r][1].body.rows[1]

\* C1: a GET /products/special is always routed to the special handler, never
\* to the get-by-id handler: the literal route is matched before /:id, so
\* "special" is never parsed as an id and no Store call is made for it.
C1_SpecialNeverTakenAsId ==
  \A r \in Reqs :
    request[r] = SpecialRequest =>
      /\ handler[r] = "getSpecial"
      /\ handler[r] # "getById"
      /\ call[r] = <<>>
      /\ outcome[r] = NoOutcome

C1_Witness ==
  \E r \in Reqs :
    /\ request[r] = SpecialRequest
    /\ Answered(r)
    /\ products # <<>>

C3_AbsentIs404 ==
  \A r \in Reqs :
    ( /\ Answered(r)
      /\ handler[r] = "getById"
      /\ IsInt(AskedId(r))
      /\ AskedId(r).n \notin Ids(products)
      /\ StoreUp(r) )
    => /\ outcome[r] = Resolved(Null)
       /\ sent[r] = <<NotFoundResponse>>

C3_Witness ==
  \E r \in Reqs :
    /\ Answered(r)
    /\ handler[r] = "getById"
    /\ IsInt(AskedId(r))
    /\ AskedId(r).n \notin Ids(products)
    /\ products # <<>>
    /\ sent[r] = <<NotFoundResponse>>

\* C4: once a POST /products has been answered 201 with a record, every later
\* GET /products that is answered 200 returns an array that has that record.
C4_ListIncludesCreated ==
  \A r, g \in Reqs :
    ( /\ Answered(g)
      /\ handler[g] = "getAll"
      /\ r \in after[g]
      /\ Answered201(r)
      /\ sent[g][1].status = 200 )
    => \E i \in 1..Len(sent[g][1].body.rows) :
         sent[g][1].body.rows[i] = Created(r)

C4_Witness ==
  \E r, g \in Reqs :
    /\ Answered(g)
    /\ handler[g] = "getAll"
    /\ r \in after[g]
    /\ Answered201(r)
    /\ sent[g][1].status = 200
    /\ Len(sent[g][1].body.rows) >= 2

\* C5: handling GET /products/special answers 200 { message: "Special
\* products" } in the step that receives it, whatever the Store holds and
\* whether or not the Store is failing, makes no Store call and leaves the
\* Store as it was.
C5_SpecialIsStatic ==
  [][ \A r \in Reqs :
        (pc[r] = "idle" /\ request'[r] = SpecialRequest)
        => /\ pc'[r] = "done"
           /\ sent'[r] = <<SpecialResponse>>
           /\ call'[r] = <<>>
           /\ products' = products
           /\ counter' = counter ]_vars

C5_Witness ==
  \E r, s \in Reqs :
    /\ request[r] = SpecialRequest
    /\ sent[r] = <<SpecialResponse>>
    /\ s < r
    /\ outcome[s].error = "connectivity"
    /\ products # <<>>

\* C6: a Store failure during a product request is answered 500 with the
\* generic error body of that operation, never 2xx or 404, and the handler
\* sends exactly that one response.
FailureMessage(h) ==
  CASE h = "getAll" -> "Failed to fetch products"
    [] h = "getById" -> "Failed to fetch product"
    [] h = "create" -> "Failed to create product"
C6_StoreFailureIs500 ==
  \A r \in Reqs :
    (Answered(r) /\ handler[r] \in AsyncHandlers /\ ~outcome[r].ok)
    => sent[r] = <<Response(500, ErrorBody(FailureMessage(handler[r])))>>

C6_Witness ==
  \E r, s \in Reqs :
    /\ r # s
    /\ Answered(r) /\ handler[r] = "getAll" /\ outcome[r].error = "connectivity"
    /\ Answered(s) /\ handler[s] = "create" /\ ~outcome[s].ok
    /\ sent[s][1].status = 500

\* C7: a GET /products/:id whose path segment parses to NaN is answered
\* 404 { error: "Product not found" }, like an integer id no product has.
C7_NaNIs404 ==
  \A r \in Reqs :
    ( /\ Answered(r)
      /\ handler[r] = "getById"
      /\ AskedId(r) = NaN
      /\ StoreUp(r) )
    => sent[r] = <<NotFoundResponse>>

\* C8: no two stored products have the same id, and a create never hands the
\* Store an id taken from the request body: the Store assigns it.
C8_IdsUnique ==
  /\ \A i, j \in 1..Len(products) :
       i # j => products[i].id # products[j].id
  /\ \A r \in Reqs :
       (handler[r] = "create" /\ pc[r] # "idle")
       => /\ call[r] = <<Call("create", Undef, request[r].body.name,
                              request[r].body.price)>>
          /\ (outcome[r].ok => outcome[r].value.rows[1].id \in Ids(products))

C8_Witness ==
  \E r \in Reqs :
    /\ Answered201(r)
    /\ request[r].body.id # Undef
    /\ Num(Created(r).id) # request[r].body.id
    /\ Len(products) >= 2

\* C9: a stored product is never updated or deleted: every step keeps every
\* row as it is, and the table changes only by a successful create appending
\* the one record it returns.
C9_StoreOnlyGrowsByCreate ==
  [][ /\ \A k \in 1..Len(products) :
           Len(products') >= k /\ products'[k] = products[k]
      /\ products' # products =>
           /\ Len(products') = Len(products) + 1
           /\ \E r \in Reqs :
                /\ pc[r] = "awaiting"
                /\ handler[r] = "create"
                /\ pc'[r] = "settled"
                /\ outcome'[r] =
                     Resolved(Value("object", <<products'[Len(products')]>>)) ]_vars

C9_Witness ==
  \E r, s \in Reqs :
    /\ Answered201(r)
    /\ Answered(s)
    /\ r \in after[s]
    /\ handler[s] \in {"getAll", "getById", "getSpecial", "postMessage"}
    /\ Len(products) >= 2

\* C10: when the Store does not fail, GET /products is answered 200 with
\* exactly the rows the Store holds at the time of the call, each once.
C10_ListIsExact ==
  [][ \A r \in Reqs :
        handler[r] = "getAll" =>
          /\ (pc[r] = "awaiting" /\ pc'[r] = "settled" /\ outcome'[r].error # "connectivity")
             => /\ outcome'[r] = Resolved(Value("array", products))
                /\ \A i, j \in 1..Len(outcome'[r].value.rows) :
                     i # j => outcome'[r].value.rows[i] # outcome'[r].value.rows[j]
          /\ (pc[r] = "settled" /\ pc'[r] = "done" /\ outcome[r].ok)
             => sent'[r] = <<Response(200, Body("products", "", outcome[r].value.rows))>> ]_vars

C10_Witness ==
  \E r \in Reqs :
    /\ Answered(r)
    /\ handler[r] = "getAll"
    /\ sent[r][1].status = 200
    /\ Len(sent[r][1].body.rows) >= 2
    /\ sent[r][1].body.rows = products

\* C11: POST /products validates nothing before the Store call: for every
\* body, also one whose name is missing or whose price has the wrong type,
\* the handler answers nothing before the call, calls the Store's create
\* exactly once with exactly the body's name and price, and answers 201 with
\* the Store's record when the Store resolves, 500 when it rejects.
C11_CreateForwardsBodyUnchecked ==
  \A r \in Reqs :
    (handler[r] = "create" /\ pc[r] # "idle")
    => /\ Len(call[r]) = 1
       /\ call[r][1].op = "create"
       /\ call[r][1].name = request[r].body.name
       /\ call[r][1].price = request[r].body.price
       /\ pc[r] \in {"awaiting", "settled"} => sent[r] = <<>>
       /\ (Answered(r) /\ outcome[r].ok)
          => sent[r] = <<Response(201, Body("product", "", outcome[r].value.rows))>>
       /\ (Answered(r) /\ ~outcome[r].ok)
          => sent[r] = <<Response(500, ErrorBody("Failed to create product"))>>

C11_Witness ==
  \E r, s \in Reqs :
    /\ Answered(r) /\ handler[r] = "create"
    /\ request[r].body.name = Undef
    /\ request[r].body.price.t = "string"
    /\ outcome[r].error = "validation"
    /\ sent[r][1].status = 500
    /\ Answered(s) /\ handler[s] = "create" /\ sent[s][1].status = 201

\* C12: a failure ends only its own request.  A Store call whose request is
\* answered 404 or 500 leaves the table and the autoincrement counter as they
\* were, and after such an answer the server still takes the next request,
\* which therefore meets the Store the failed request found.
Failed(s) == Answered(s) /\ sent[s][1].status \in {404, 500}
NextToArrive(r) == pc[r] = "idle" /\ \A t \in Reqs : t < r => pc[t] # "idle"
MessageReply(name) ==
  Response(200, Body("reply", "Thanks " \o name \o ", we received your message!", <<>>))
C13_MessageReplyNamesSender ==
  /\ \A r \in Reqs :
       (handler[r] = "postMessage" /\ pc[r] # "idle")
       => /\ Answered(r)
          /\ sent[r] = <<MessageReply(request[r].body.name.s)>>
          /\ call[r] = <<>>
  /\ \A r \in Reqs :
       request[r] = Req("POST", <<"message">>,
                        [NoBody EXCEPT !.name = Str("Alba"), !.message = Str("Hello!")])
       => sent[r] = <<Response(200, Body("reply",
                         "Thanks Alba, we received your message!", <<>>))>>

C13_Witness ==
  \E r, s \in Reqs :
    /\ handler[r] = "postMessage" /\ handler[s] = "postMessage"
    /\ request[r].body.name = request[s].body.name
    /\ request[r].body.message # request[s].body.message
    /\ sent[r] = sent[s]
    /\ sent[r][1].body.text = "Thanks Alba, we received your message!"

ProductHandlers == {"getAll", "getSpecial", "getById", "create"}
C15_LayeredStackEquivalent ==
  \A r \in Reqs :
    (pc[r] # "idle" /\ handler[r] \in ProductHandlers)
    => /\ FirstMatch(LayeredRoutes, request[r].method, Tail(request[r].path))
            = handler[r]
       /\ IF handler[r] \in AsyncHandlers
          THEN /\ call[r] = <<ControllerCall(handler[r], request[r])>>
               /\ Answered(r)
                  => sent[r] = <<ControllerResume(handler[r], outcome[r])>>
          ELSE /\ call[r] = <<>>
               /\ sent[r] = <<ControllerSync(handler[r], request[r])>>

C15_Witness ==
  \E r, s \in Reqs :
    /\ Answered201(r)
    /\ sent[r] = <<ControllerResume("create", outcome[r])>>
    /\ Answered(s) /\ handler[s] = "create" /\ ~outcome[s].ok
    /\ request[s].body.price.t = "string"
    /\ call[s] = <<ControllerCall("create", request[s])>>

\* C16: every request gets exactly one response.  A handler without a Store
\* call answers in the step that receives the request (the logging
\* middleware passed it on); a product handler has sent nothing while its
\* Store call is pending and, once the call has resolved or rejected, sends
\* one response and no second one.  A request leaves "settled" only by
\* sending, so never staying settled for ever is being answered eventually.
C16_ExactlyOneResponse ==
  /\ [](\A r \in Reqs :
          /\ pc[r] \in {"idle", "awaiting", "settled"} => sent[r] = <<>>
          /\ Answered(r) => Len(sent[r]) = 1
          /\ (pc[r] # "idle" /\ handler[r] \notin AsyncHandlers) => Answered(r))
  /\ \A r \in Reqs : []<>(pc[r] # "settled")

C16_Witness ==
  \E r, s \in Reqs :
    /\ Answered(r) /\ handler[r] = "getById"
    /\ sent[r] = <<NotFoundResponse>>
    /\ Answered(s) /\ handler[s] = "postMessage"
    /\ Len(sent[s]) = 1

\* C17: two POST /products that both answer 201, in particular two in flight
\* at the same time with their Store calls in either order, return records
\* with different ids, each with the name and price of its own request, and
\* both records are rows of the table afterwards.
Stored(row) == \E k \in 1..Len(products) : products[k] = row
C17_CreatesDoNotInterfere ==
  \A r, s \in Reqs :
    (r # s /\ Answered201(r) /\ Answered201(s))
    => /\ Created(r).id # Created(s).id
       /\ Created(r).name = request[r].body.name.s
       /\ Created(r).price = request[r].body.price.n
       /\ Created(s).name = request[s].body.name.s
       /\ Created(s).price = request[s].body.price.n
       /\ Stored(Created(r))
       /\ Stored(Created(s))

\* both in flight together, and the later arrival served first by the Store
C17_Witness ==
  \E r, s \in Reqs :
    /\ r < s
    /\ Answered201(r) /\ Answered201(s)
    /\ r \notin after[s]
    /\ Created(s).id < Created(r).id
    /\ request[r].body # request[s].body

====
